---------------------------- MODULE Spec2Model ----------------------------
(***************************************************************************)
(* A model of libsolresol.py: the SolfegeSymbol enumeration with its       *)
(* aliases, the SolresolWord constructor and its serialisers, and the      *)
(* Solresol phrase with its packed integer encoding.                       *)
(*                                                                         *)
(* A Python str is a sequence of one-character strings, a SolfegeSymbol    *)
(* member is the string of its canonical name ("DO" .. "SI"), a Python     *)
(* list is a sequence, and a raised exception is a result whose ok field   *)
(* is FALSE.                                                               *)
(***************************************************************************)
EXTENDS Integers, Sequences, FiniteSets, TLC

VARIABLES pc, arg, syntax, self, out, back, text, phrase, pvalue, pback

vars == <<pc, arg, syntax, self, out, back, text, phrase, pvalue, pback>>

(***************************************************************************)
(* Bounds of the inputs.                                                   *)
(***************************************************************************)
MaxWordLen == 5
MaxStrLen == 4
MaxInt == 80
MaxPhraseWordLen == 6

(***************************************************************************)
(* class SolfegeSymbol(enum.Enum)                                          *)
(***************************************************************************)
Members == <<"DO", "RE", "MI", "FA", "SOL", "LA", "SI">>

MemberSet == {Members[i] : i \in 1..Len(Members)}

\* member.value
ValueOf(m) == CHOOSE i \in 1..Len(Members) : Members[i] = m

\* member.name, as a str
NameOf(m) ==
  CASE m = "DO"  -> <<"D", "O">>
    [] m = "RE"  -> <<"R", "E">>
    [] m = "MI"  -> <<"M", "I">>
    [] m = "FA"  -> <<"F", "A">>
    [] m = "SOL" -> <<"S", "O", "L">>
    [] m = "LA"  -> <<"L", "A">>
    [] m = "SI"  -> <<"S", "I">>

\* The names each member is registered under (the first is canonical, the
\* others are aliases of it).
Aliases(m) ==
  CASE m = "DO"  -> {<<"D","O">>, <<"D","o">>, <<"d","o">>, <<"D">>, <<"d">>,
                     <<"p">>, <<"o">>}
    [] m = "RE"  -> {<<"R","E">>, <<"R","e">>, <<"r","e">>, <<"R">>, <<"r">>,
                     <<"k">>, <<"e">>}
    [] m = "MI"  -> {<<"M","I">>, <<"M","i">>, <<"m","i">>, <<"M">>, <<"m">>,
                     <<"i">>}
    [] m = "FA"  -> {<<"F","A">>, <<"F","a">>, <<"f","a">>, <<"F">>, <<"f">>,
                     <<"a">>}
    [] m = "SOL" -> {<<"S","O","L">>, <<"S","o","l">>, <<"s","o","l">>,
                     <<"S","o">>, <<"s","o">>, <<"S">>, <<"s">>, <<"u">>}
    [] m = "LA"  -> {<<"L","A">>, <<"L","a">>, <<"l","a">>, <<"L">>, <<"l">>,
                     <<"a","u">>}
    [] m = "SI"  -> {<<"S","I">>, <<"S","i">>, <<"s","i">>, <<"T","I">>,
                     <<"T","i">>, <<"t","i">>, <<"T">>, <<"t">>, <<"a","i">>}

\* SolfegeSymbol[s] succeeds (no KeyError)
HasName(s) == \E m \in MemberSet : s \in Aliases(m)

\* SolfegeSymbol[s]
ByName(s) == CHOOSE m \in MemberSet : s \in Aliases(m)

\* SolfegeSymbol(i) succeeds (no ValueError)
HasValue(i) == i \in 1..Len(Members)

\* SolfegeSymbol(i)
ByValue(i) == Members[i]

\* SolfegeSymbol.sescons
sescons(m) == <<"p", "k", "m", "f", "s", "l", "t">>[ValueOf(m)]

\* sesvowel with the two digraphs in the order the enumeration registers
\* them (au for LA, ai for SI)
sesvowel_swapped(m) ==
  << <<"o">>, <<"e">>, <<"i">>, <<"a">>, <<"u">>, <<"a","u">>, <<"a","i">> >>[ValueOf(m)]

\* SolfegeSymbol.sesvowel, a str of one or two characters
sesvowel(m) ==
  << <<"o">>, <<"e">>, <<"i">>, <<"a">>, <<"u">>, <<"a","i">>, <<"a","u">> >>[ValueOf(m)]

(***************************************************************************)
(* Python built-ins used by the codec.                                     *)
(***************************************************************************)
OctDigits == <<"0", "1", "2", "3", "4", "5", "6", "7">>

DecDigits == <<"0", "1", "2", "3", "4", "5", "6", "7", "8", "9">>

\* int(c) of a one-character str succeeds
IsDecDigit(c) == \E d \in 1..Len(DecDigits) : DecDigits[d] = c

\* int(c) of a one-character str
DigitOf(c) == (CHOOSE d \in 1..Len(DecDigits) : DecDigits[d] = c) - 1

\* oct(n)[2:] of a non-negative int
RECURSIVE Oct(_)
Oct(n) == IF n < 8 THEN <<OctDigits[n + 1]>>
          ELSE Oct(n \div 8) \o <<OctDigits[(n % 8) + 1]>>

\* int(s, 8) succeeds
IsOctal(s) == s # <<>> /\ \A i \in 1..Len(s) : IsDecDigit(s[i]) /\ DigitOf(s[i]) < 8

\* int(s, 8)
RECURSIVE IntBase8(_)
IntBase8(s) == IF Len(s) = 1 THEN DigitOf(s[1])
               ELSE 8 * IntBase8(SubSeq(s, 1, Len(s) - 1)) + DigitOf(s[Len(s)])

\* str(i) of a symbol value
StrOfValue(i) == DecDigits[i + 1]

RECURSIVE lstrip(_, _)
lstrip(s, c) == IF s # <<>> /\ s[1] = c THEN lstrip(Tail(s), c) ELSE s

RECURSIVE rstrip(_, _)
rstrip(s, c) == IF s # <<>> /\ s[Len(s)] = c
                THEN rstrip(SubSeq(s, 1, Len(s) - 1), c) ELSE s

\* a strip that removes the leading c's only
strip_leading(s, c) == lstrip(s, c)

\* a strip that removes every c, inner ones too
strip_all(s, c) == SelectSeq(s, LAMBDA x : x # c)

\* s.strip(c)
strip(s, c) == rstrip(lstrip(s, c), c)

\* s.replace(a + b, r) for a two-character pattern and a one-character
\* replacement: left to right, non-overlapping
RECURSIVE replace(_, _, _, _)
replace(s, a, b, r) ==
  IF s = <<>> THEN <<>>
  ELSE IF Len(s) >= 2 /\ s[1] = a /\ s[2] = b
       THEN <<r>> \o replace(SubSeq(s, 3, Len(s)), a, b, r)
       ELSE <<s[1]>> \o replace(Tail(s), a, b, r)

RECURSIVE Fill(_, _)
Fill(n, c) == IF n <= 0 THEN <<>> ELSE <<c>> \o Fill(n - 1, c)

\* s.rjust(w, c)
rjust(s, w, c) == Fill(w - Len(s), c) \o s

\* s.ljust(w, c)
ljust(s, w, c) == s \o Fill(w - Len(s), c)

\* c.lower() of one character
LowerChar(c) ==
  CASE c = "D" -> "d" [] c = "O" -> "o" [] c = "R" -> "r" [] c = "E" -> "e"
    [] c = "M" -> "m" [] c = "I" -> "i" [] c = "F" -> "f" [] c = "A" -> "a"
    [] c = "S" -> "s" [] c = "L" -> "l" [] c = "T" -> "t" [] OTHER -> c

\* s.lower()
lower(s) == [i \in 1..Len(s) |-> LowerChar(s[i])]

\* s.startswith(p)
startswith(s, p) == Len(s) >= Len(p) /\ SubSeq(s, 1, Len(p)) = p

\* ''.join(parts)
RECURSIVE join(_)
join(parts) == IF parts = <<>> THEN <<>> ELSE Head(parts) \o join(Tail(parts))

\* s[:n] and s[n:]
Take(s, n) == SubSeq(s, 1, IF n < Len(s) THEN n ELSE Len(s))

Drop(s, n) == SubSeq(s, n + 1, Len(s))


(***************************************************************************)
(* class SolresolWord                                                      *)
(***************************************************************************)
Raised == [ok |-> FALSE, word |-> <<>>]

Built(w) == [ok |-> TRUE, word |-> w]

\* [SolfegeSymbol[s] for s in names]
FromNames(names) ==
  IF \A i \in 1..Len(names) : HasName(names[i])
  THEN Built([i \in 1..Len(names) |-> ByName(names[i])])
  ELSE Raised

\* [SolfegeSymbol(int(s)) for s in digits]
FromDigits(digits) ==
  IF \A i \in 1..Len(digits) : IsDecDigit(digits[i]) /\ HasValue(DigitOf(digits[i]))
  THEN Built([i \in 1..Len(digits) |-> ByValue(DigitOf(digits[i]))])
  ELSE Raised

\* [SolfegeSymbol(i) for i in values]
FromValues(values) ==
  IF \A i \in 1..Len(values) : HasValue(values[i])
  THEN Built([i \in 1..Len(values) |-> ByValue(values[i])])
  ELSE Raised

\* a scan that never takes the three-letter form
StartsWithSol_never(word) == FALSE

\* word.lower().startswith('sol') and not word.lower().startswith('sola')
StartsWithSol(word) ==
  /\ startswith(lower(word), <<"s", "o", "l">>)
  /\ ~startswith(lower(word), <<"s", "o", "l", "a">>)

\* the while loop of the full syntax
RECURSIVE FullScan(_)
FullScan(word) ==
  IF Len(word) = 0 THEN Built(<<>>)
  ELSE IF StartsWithSol(word)
       THEN LET rest == FullScan(Drop(word, 3))
            IN  IF rest.ok THEN Built(<<"SOL">> \o rest.word) ELSE Raised
       ELSE IF HasName(Take(word, 2))
            THEN LET rest == FullScan(Drop(word, 2))
                 IN  IF rest.ok THEN Built(<<ByName(Take(word, 2))>> \o rest.word)
                     ELSE Raised
            ELSE Raised

\* one-character slices of a str, as the iteration over it yields them
Chars(s) == [i \in 1..Len(s) |-> <<s[i]>>]

\* SolresolWord.__init__(word, syntax): the value of self.word, or Raised.
\* a is the argument: a.kind is its Python type, "symbols", "names" and
\* "ints" being lists told apart by the type of their first element.
WordInit(a, syn) ==
  IF a.kind \in {"symbols", "names", "ints"}
  THEN IF Len(a.list) = 0 THEN Raised
       ELSE IF a.kind = "symbols" THEN Built(a.list)
       ELSE IF a.kind = "names" THEN FromNames(a.list)
       ELSE FromValues(a.list)
  ELSE IF a.kind = "str"
  THEN IF syn \in {"ses", "s"}
       THEN FromNames(Chars(replace(replace(a.str, "a", "i", "l"), "a", "u", "t")))
       ELSE IF syn \in {"num", "#"} THEN FromDigits(strip(a.str, "0"))
       ELSE FullScan(a.str)    \* syn \in {"full", "default"}
  ELSE FromDigits(strip(Oct(a.int), "0"))

\* SolresolWord.ses
WordSes(w) ==
  IF Len(w) = 1 THEN sesvowel(w[1])
  ELSE join([ix \in 1..Len(w) |->
               IF (ix - 1) % 2 = 0 THEN <<sescons(w[ix])>> ELSE sesvowel(w[ix])])

\* SolresolWord.fulltext
WordFulltext(w) == lower(join([i \in 1..Len(w) |-> NameOf(w[i])]))

\* the digit string that SolresolWord.value reads in base 8
WordDigits(w) == [i \in 1..Len(w) |-> StrOfValue(ValueOf(w[i]))]

\* SolresolWord.value with the digits read in base 10
WordValue_base10(w) ==
  LET RECURSIVE dec(_)
      dec(s) == IF Len(s) = 1 THEN DigitOf(s[1])
                ELSE 10 * dec(SubSeq(s, 1, Len(s) - 1)) + DigitOf(s[Len(s)])
  IN  dec(WordDigits(w))

\* SolresolWord.value, for a word whose digit string int() accepts
WordValue(w) == IntBase8(WordDigits(w))

ListArg(kind, l) == [kind |-> kind, list |-> l, str |-> <<>>, int |-> 0]

StrArg(s) == [kind |-> "str", list |-> <<>>, str |-> s, int |-> 0]

IntArg(n) == [kind |-> "int", list |-> <<>>, str |-> <<>>, int |-> n]

\* what a serialiser returned: via names the property, syntax the syntax
\* its result is read back in
Out(via, kind, str, int, syn) ==
  [ok |-> TRUE, via |-> via, kind |-> kind, str |-> str, int |-> int, syntax |-> syn]

OutRaised(via) ==
  [ok |-> FALSE, via |-> via, kind |-> "none", str |-> <<>>, int |-> 0,
   syntax |-> "default"]

NoOut == OutRaised("none")

(***************************************************************************)
(* class Solresol                                                          *)
(***************************************************************************)
\* the width of a chunk in Solresol.__init__ and of a padded word in
\* Solresol.value
ChunkWidth == 5

PadWidth == 5

NoPhrase == [ok |-> FALSE, words |-> <<>>]

\* the list of words a phrase holds, or NoPhrase if a constructor raised
Collect(ws) ==
  IF \A i \in 1..Len(ws) : ws[i].ok
  THEN [ok |-> TRUE, words |-> [i \in 1..Len(ws) |-> ws[i].word]]
  ELSE NoPhrase

\* [sw[i:i+5] for i in range(0, len(sw), 5)]
Chunks(sw) ==
  [k \in 1..((Len(sw) + ChunkWidth - 1) \div ChunkWidth) |->
     Take(Drop(sw, (k - 1) * ChunkWidth), ChunkWidth)]

\* Solresol.__init__(text, syntax) for a list of lists of symbol values and
\* for an int: the value of self.words, or NoPhrase
PhraseInit(t, syn) ==
  IF t.kind = "list"
  THEN Collect([i \in 1..Len(t.list) |-> WordInit(ListArg("ints", t.list[i]), syn)])
  ELSE LET sw == Oct(t.int)
       IN  Collect([k \in 1..Len(Chunks(sw)) |->
                      WordInit(IntArg(IntBase8(Chunks(sw)[k])), "default")])

\* Solresol.numlist succeeds: int(word) of every word does
NumlistOk(ws) == \A i \in 1..Len(ws) : IsOctal(WordDigits(ws[i]))

\* Solresol.numlist
Numlist(ws) == [i \in 1..Len(ws) |-> WordValue(ws[i])]

\* the digit string Solresol.value reads in base 8
PhraseDigits(ws) ==
  join([i \in 1..Len(ws) |-> ljust(Oct(Numlist(ws)[i]), PadWidth, "0")])

\* Solresol.value, for a phrase whose digit string int() accepts
PhraseValue(ws) == IntBase8(PhraseDigits(ws))

NoText == [kind |-> "none", list |-> <<>>, int |-> 0]

ListText(l) == [kind |-> "list", list |-> l, int |-> 0]

IntText(n) == [kind |-> "int", list |-> <<>>, int |-> n]

NoValue == [ok |-> FALSE, int |-> 0]

(***************************************************************************)
(* Phrase-level operations.  pc moves pcall -> pconstructed -> pserialized *)
(* -> pdecoded; phrase, pvalue and pback hold what each step returned.     *)
(***************************************************************************)
Solresol_init ==
  /\ pc = "pcall"
  /\ phrase' = PhraseInit(text, syntax)
  /\ pc' = "pconstructed"
  /\ UNCHANGED <<arg, syntax, self, out, back, text, pvalue, pback>>

Solresol_value ==
  /\ pc = "pconstructed"
  /\ phrase.ok
  /\ pvalue' = IF NumlistOk(phrase.words) /\ IsOctal(PhraseDigits(phrase.words))
               THEN [ok |-> TRUE, int |-> PhraseValue(phrase.words)]
               ELSE NoValue
  /\ pc' = "pserialized"
  /\ UNCHANGED <<arg, syntax, self, out, back, text, phrase, pback>>

\* Solresol(value) on what Solresol.value returned
Solresol_decode ==
  /\ pc = "pserialized"
  /\ pvalue.ok
  /\ pback' = PhraseInit(IntText(pvalue.int), "default")
  /\ pc' = "pdecoded"
  /\ UNCHANGED <<arg, syntax, self, out, back, text, phrase, pvalue>>


(***************************************************************************)
(* Word-level operations.  pc moves call -> constructed -> serialized ->   *)
(* reparsed; self, out and back hold what each step returned.              *)
(***************************************************************************)
SolresolWord_init ==
  /\ pc = "call"
  /\ self' = WordInit(arg, syntax)
  /\ pc' = "constructed"
  /\ UNCHANGED <<arg, syntax, out, back, text, phrase, pvalue, pback>>

SolresolWord_value ==
  /\ pc = "constructed"
  /\ self.ok
  /\ out' = IF IsOctal(WordDigits(self.word))
            THEN Out("value", "int", <<>>, WordValue(self.word), "default")
            ELSE OutRaised("value")
  /\ pc' = "serialized"
  /\ UNCHANGED <<arg, syntax, self, back, text, phrase, pvalue, pback>>

SolresolWord_fulltext ==
  /\ pc = "constructed"
  /\ self.ok
  /\ out' = Out("fulltext", "str", WordFulltext(self.word), 0, "full")
  /\ pc' = "serialized"
  /\ UNCHANGED <<arg, syntax, self, back, text, phrase, pvalue, pback>>

SolresolWord_ses ==
  /\ pc = "constructed"
  /\ self.ok
  /\ out' = Out("ses", "str", WordSes(self.word), 0, "ses")
  /\ pc' = "serialized"
  /\ UNCHANGED <<arg, syntax, self, back, text, phrase, pvalue, pback>>

\* SolresolWord(out, syntax) on what a serialiser returned
SolresolWord_reinit ==
  /\ pc = "serialized"
  /\ out.ok
  /\ back' = WordInit([kind |-> out.kind, list |-> <<>>, str |-> out.str,
                       int |-> out.int], out.syntax)
  /\ pc' = "reparsed"
  /\ UNCHANGED <<arg, syntax, self, out, text, phrase, pvalue, pback>>

SeqsUpTo(S, n) == UNION {[1..k -> S] : k \in 0..n}

InitRest ==
  /\ pc = "call"
  /\ self = Raised
  /\ out = NoOut
  /\ back = Raised
  /\ text = NoText
  /\ phrase = NoPhrase
  /\ pvalue = NoValue
  /\ pback = NoPhrase

\* words given as lists of symbol values
Init ==
  /\ arg \in {ListArg("ints", l) : l \in SeqsUpTo(1..7, MaxWordLen)}
  /\ syntax = "default"
  /\ InitRest

Next ==
  \/ SolresolWord_init
  \/ SolresolWord_value
  \/ SolresolWord_fulltext
  \/ SolresolWord_ses
  \/ SolresolWord_reinit

Spec == Init /\ [][Next]_vars

(***************************************************************************)
(* Word-level round trips, checked under Spec.                             *)
(***************************************************************************)
RECURSIVE Pow8(_)
Pow8(k) == IF k = 0 THEN 1 ELSE 8 * Pow8(k - 1)

RECURSIVE SumTo(_, _)
SumTo(w, i) ==
  IF i = 0 THEN 0 ELSE SumTo(w, i - 1) + ValueOf(w[i]) * Pow8(Len(w) - i)

Serialized(via) == pc \in {"serialized", "reparsed"} /\ out.via = via

Reparsed(via) == pc = "reparsed" /\ out.via = via

\* C4: a word's packed value is the sum of value[i] * 8^(n-1-i), and the
\* word constructed from that integer has exactly the word's symbols.
C4_WordPackedRoundTrip ==
  /\ Serialized("value") => out.ok /\ out.int = SumTo(self.word, Len(self.word))
  /\ Reparsed("value") => back.ok /\ back.word = self.word

C4_Witness ==
  /\ Reparsed("value")
  /\ self.word = <<"DO", "SI", "MI", "SOL">>
  /\ out.int = 1 * 512 + 7 * 64 + 3 * 8 + 5
  /\ back.word = self.word

\* C5: parsing a word's fulltext in the full syntax gives back the word's
\* symbols.
C5_FulltextRoundTrip ==
  Reparsed("fulltext") => back.ok /\ back.word = self.word

C5_Witness ==
  /\ Reparsed("fulltext")
  /\ self.word = <<"SOL", "LA", "SOL">>
  /\ out.str = <<"s","o","l","l","a","s","o","l">>
  /\ back.word = self.word

\* C10: parsing a word's ses form in the phonetic syntax gives back the
\* word's symbols; the ses form of a one-symbol word is its vowel alone, and
\* of a longer word one consonant per even position and one vowel (a single
\* letter, or a digraph for LA and SI) per odd position.
C10_SesRoundTrip ==
  /\ Reparsed("ses") => back.ok /\ back.word = self.word
  /\ Serialized("ses") =>
       LET n == Len(self.word)
           wide == {i \in 1..n : (n = 1 \/ i % 2 = 0) /\ self.word[i] \in {"LA", "SI"}}
       IN  /\ Len(out.str) = n + Cardinality(wide)
           /\ n = 1 => out.str \in {<<"o">>, <<"e">>, <<"i">>, <<"a">>, <<"u">>,
                                    <<"a","i">>, <<"a","u">>}

C10_Witness ==
  /\ Reparsed("ses")
  /\ self.word = <<"FA", "LA", "LA", "SI">>
  /\ out.str = <<"f","a","i","l","a","u">>
  /\ back.word = self.word

(***************************************************************************)
(* Parsing of arbitrary arguments, checked under SpecParse: strings in     *)
(* each syntax, packed integers, and lists of values, names and symbols.   *)
(***************************************************************************)
FullChars == {"d", "o", "s", "l", "a", "u", "S", "x"}

SesChars == {"p", "o", "a", "i", "u", "l", "d"}

NumChars == {"0", "1", "7", "8", "x"}

ListArgs ==
  {ListArg("ints", l) : l \in SeqsUpTo({0, 1, 7, 8}, 2)}
    \cup {ListArg("names", l) : l \in SeqsUpTo({<<"d","o">>, <<"p">>, <<"x">>}, 2)}
    \cup {ListArg("symbols", l) : l \in SeqsUpTo({"DO", "SI"}, 2)}

InitParse ==
  /\ \/ /\ syntax = "full"
        /\ arg \in {StrArg(str) : str \in SeqsUpTo(FullChars, MaxStrLen)}
     \/ /\ syntax = "ses"
        /\ arg \in {StrArg(str) : str \in SeqsUpTo(SesChars, MaxStrLen)}
     \/ /\ syntax = "num"
        /\ arg \in {StrArg(str) : str \in SeqsUpTo(NumChars, MaxStrLen)}
     \/ /\ syntax = "default"
        /\ arg \in {IntArg(n) : n \in 0..MaxInt} \cup ListArgs
  /\ InitRest

SpecParse == InitParse /\ [][Next]_vars

Constructed == pc # "call"

\* The alias sets of the three syntaxes, as the specification scopes them.
FullAliasSet ==
  {<<"D","O">>, <<"D","o">>, <<"d","o">>, <<"D">>, <<"d">>,
   <<"R","E">>, <<"R","e">>, <<"r","e">>, <<"R">>, <<"r">>,
   <<"M","I">>, <<"M","i">>, <<"m","i">>, <<"M">>, <<"m">>,
   <<"F","A">>, <<"F","a">>, <<"f","a">>, <<"F">>, <<"f">>,
   <<"S","O","L">>, <<"S","o","l">>, <<"s","o","l">>, <<"S","o">>, <<"s","o">>,
   <<"S">>, <<"s">>,
   <<"L","A">>, <<"L","a">>, <<"l","a">>, <<"L">>, <<"l">>,
   <<"S","I">>, <<"S","i">>, <<"s","i">>, <<"T","I">>, <<"T","i">>, <<"t","i">>,
   <<"T">>, <<"t">>}

PhoneticAliasSet ==
  {<<"p">>, <<"k">>, <<"m">>, <<"f">>, <<"s">>, <<"l">>, <<"t">>,
   <<"o">>, <<"e">>, <<"i">>, <<"a">>, <<"u">>, <<"a","i">>, <<"a","u">>}

NumericAliasSet == {<<"1">>, <<"2">>, <<"3">>, <<"4">>, <<"5">>, <<"6">>, <<"7">>}

\* the slices the full-syntax scan hands to the alias lookup, up to and
\* including the first one the lookup refuses
RECURSIVE PresentedFull(_)
PresentedFull(word) ==
  IF Len(word) = 0 THEN {}
  ELSE IF StartsWithSol(word) THEN PresentedFull(Drop(word, 3))
  ELSE {Take(word, 2)} \cup
         (IF HasName(Take(word, 2)) THEN PresentedFull(Drop(word, 2)) ELSE {})

\* the characters the phonetic parse hands to the alias lookup
PresentedSes(word) ==
  {<<c>> : c \in {replace(replace(word, "a", "i", "l"), "a", "u", "t")[i] :
                    i \in 1..Len(replace(replace(word, "a", "i", "l"), "a", "u", "t"))}}

\* the characters the numeric parse hands to the lookup
PresentedNum(word) == {<<strip(word, "0")[i]>> : i \in 1..Len(strip(word, "0"))}

\* C6: a token handed to the alias lookup that is not in the alias set of
\* the syntax being parsed makes the parse fail.
C6_AliasScoped ==
  (Constructed /\ arg.kind = "str") =>
    /\ (syntax = "full" /\ PresentedFull(arg.str) \ FullAliasSet # {}) => ~self.ok
    /\ (syntax = "ses" /\ PresentedSes(arg.str) \ PhoneticAliasSet # {}) => ~self.ok
    /\ (syntax = "num" /\ PresentedNum(arg.str) \ NumericAliasSet # {}) => ~self.ok

\* digit i (0 the lowest) of n in base 8, and the number of digits of n
Digit8(n, i) == (n \div Pow8(i)) % 8

RECURSIVE NumDigits8(_)
NumDigits8(n) == IF n = 0 THEN 0 ELSE 1 + NumDigits8(n \div 8)

HasZeroDigit(n) == \E i \in 0..(NumDigits8(n) - 1) : Digit8(n, i) = 0

HasInnerZero(n) ==
  \E i, j, k \in 0..(NumDigits8(n) - 1) :
    i < j /\ j < k /\ Digit8(n, i) # 0 /\ Digit8(n, j) = 0 /\ Digit8(n, k) # 0

RECURSIVE Leftover(_)
Leftover(word) ==
  IF Len(word) <= 1 THEN Len(word)
  ELSE IF StartsWithSol(word) THEN Leftover(Drop(word, 3))
  ELSE Leftover(Drop(word, 2))

\* C8: a full-syntax string that leaves exactly one character after the
\* three- and two-character tokens is rejected.
C8_TrailingPartialRejected ==
  (Constructed /\ arg.kind = "str" /\ syntax = "full" /\ Leftover(arg.str) = 1)
    => ~self.ok

\* C9: every word that was constructed, and every word of a constructed
\* phrase, has at least one symbol.
C9_WordNonEmpty ==
  /\ (Constructed /\ self.ok) => Len(self.word) >= 1
  /\ (pc = "reparsed" /\ back.ok) => Len(back.word) >= 1
  /\ phrase.ok => \A i \in 1..Len(phrase.words) : Len(phrase.words[i]) >= 1
  /\ pback.ok => \A i \in 1..Len(pback.words) : Len(pback.words[i]) >= 1

(***************************************************************************)
(* Phrases and their packed value, checked under SpecPhrase: phrases of    *)
(* up to two words given as lists of symbol values, and small packed       *)
(* integers.  Two padded words take ten octal digits, 30 bits; a packed    *)
(* value of eleven digits is kept when its first digit is 1, so that every *)
(* value stays below 2^31.                                                 *)
(***************************************************************************)
PhraseSymbols == {1, 7}

PhraseWords == SeqsUpTo(PhraseSymbols, MaxPhraseWordLen)

Width(w) == IF Len(w) > PadWidth THEN Len(w) ELSE PadWidth

Fits(w1, w2) ==
  \/ Width(w1) + Width(w2) <= 10
  \/ Width(w1) + Width(w2) = 11 /\ w1 # <<>> /\ w1[1] = 1

InitPhrase ==
  /\ \/ text = ListText(<<>>)
     \/ text \in {ListText(<<w>>) : w \in PhraseWords}
     \/ text \in {ListText(<<l[1], l[2]>>) :
                    l \in {m \in PhraseWords \X PhraseWords : Fits(m[1], m[2])}}
     \/ text \in {IntText(n) : n \in 0..MaxInt}
  /\ pc = "pcall"
  /\ arg = ListArg("ints", <<>>)
  /\ syntax = "default"
  /\ self = Raised
  /\ out = NoOut
  /\ back = Raised
  /\ phrase = NoPhrase
  /\ pvalue = NoValue
  /\ pback = NoPhrase

NextPhrase ==
  \/ Solresol_init
  \/ Solresol_value
  \/ Solresol_decode

SpecPhrase == InitPhrase /\ [][NextPhrase]_vars

ValueTaken == pc \in {"pserialized", "pdecoded"}

WithinCeiling(ws) == \A i \in 1..Len(ws) : Len(ws[i]) >= 1 /\ Len(ws[i]) <= 5

C2_CeilingEnforced ==
  (ValueTaken /\ \E i \in 1..Len(phrase.words) : Len(phrase.words[i]) > 5)
    => ~pvalue.ok

\* the digit string of a word, and a digit string filled with zeros to n
\* digits on its left or on its right
DigitsOfWord(w) == [i \in 1..Len(w) |-> OctDigits[ValueOf(w[i]) + 1]]

ZerosThen(str, n) ==
  [i \in 1..n |-> IF i <= n - Len(str) THEN "0" ELSE str[i - (n - Len(str))]]

ThenZeros(str, n) == [i \in 1..n |-> IF i <= Len(str) THEN str[i] ELSE "0"]

\* the base-8 rendering of v, zero-padded on the left to n digits
Rendering(v, n) == [i \in 1..n |-> OctDigits[Digit8(v, n - i) + 1]]

RECURSIVE Concat(_)
Concat(parts) == IF parts = <<>> THEN <<>> ELSE Head(parts) \o Concat(Tail(parts))

Layout(ws, Pad(_, _)) == Concat([i \in 1..Len(ws) |-> Pad(DigitsOfWord(ws[i]), 5)])

=============================================================================
